---- MODULE Spec2Model ----
(***************************************************************************)
(* Model of src/cmd/help.rs of xan: the `xan help` command, which renders  *)
(* the expression-language documentation (functions, operators, aggs,      *)
(* scraping, cheatsheet) for the terminal, as Markdown or as raw JSON.     *)
(*                                                                         *)
(* A string is a sequence of symbols.  A symbol is a one-character TLA+    *)
(* string; the part of an ANSI escape sequence before its final letter m   *)
(* is one symbol too ("ESC[32"), and so is the backtick ("BACKTICK").       *)
(***************************************************************************)
EXTENDS Integers, Sequences, FiniteSets, TLC

VARIABLES
    \* the embedded documentation files of the build
    files,
    \* slug harness: a title, slug of it, slug of that, and the position
    slugIn, slugOnce, slugTwice, slugPc,
    \* entry harness: a FunctionHelp, its rendering, and which renderer ran
    entry, entryOut, entryPc,
    \* functions harness: the -S query, the rendering, and the position
    fnSection, fnOut, fnPc,
    \* run: the Args, what was written to the pager, the Pager, the page the
    \* browser was opened on, what the invocation did so far, the CliResult
    \* and the position
    args, sink, pager, browser, effects, result, runPc,
    \* colorizer harness: a text, its colorization, and which colorizer ran
    colorIn, colorOut, colorPc,
    \* operator harness: an OperatorHelpSection, its rendering, and the position
    opSection, opOut, opPc,
    \* pass harness: which colorizer runs, the buffer after each statement
    \* executed so far (the text first) and the passes executed so far
    chainKind, chainBufs, chainLog

slugVars == <<slugIn, slugOnce, slugTwice, slugPc>>
entryVars == <<entry, entryOut, entryPc>>
fnVars == <<fnSection, fnOut, fnPc>>
runVars == <<args, sink, pager, browser, effects, result, runPc>>
colorVars == <<colorIn, colorOut, colorPc>>
opVars == <<opSection, opOut, opPc>>
chainVars == <<chainKind, chainBufs, chainLog>>
vars == <<files, slugIn, slugOnce, slugTwice, slugPc, entry, entryOut, entryPc,
          fnSection, fnOut, fnPc, args, sink, pager, browser, effects, result,
          runPc, colorIn, colorOut, colorPc, opSection, opOut, opPc,
          chainKind, chainBufs, chainLog>>

----------------------------------------------------------------------------
(* Character classes *)

UpperLetters ==
    {"A","B","C","D","E","F","G","H","I","J","K","L","M",
     "N","O","P","Q","R","S","T","U","V","W","X","Y","Z"}
LowerLetters ==
    {"a","b","c","d","e","f","g","h","i","j","k","l","m",
     "n","o","p","q","r","s","t","u","v","w","x","y","z"}
Digits == {"0","1","2","3","4","5","6","7","8","9"}

\* char::to_lowercase on the characters the model uses
LowerOf ==
    [c \in UpperLetters \cup {"É"} |->
        CASE c = "A" -> "a" [] c = "B" -> "b" [] c = "C" -> "c" [] c = "D" -> "d"
          [] c = "E" -> "e" [] c = "F" -> "f" [] c = "G" -> "g" [] c = "H" -> "h"
          [] c = "I" -> "i" [] c = "J" -> "j" [] c = "K" -> "k" [] c = "L" -> "l"
          [] c = "M" -> "m" [] c = "N" -> "n" [] c = "O" -> "o" [] c = "P" -> "p"
          [] c = "Q" -> "q" [] c = "R" -> "r" [] c = "S" -> "s" [] c = "T" -> "t"
          [] c = "U" -> "u" [] c = "V" -> "v" [] c = "W" -> "w" [] c = "X" -> "x"
          [] c = "Y" -> "y" [] c = "Z" -> "z" [] c = "É" -> "é"]

LowerChar(c) == IF c \in DOMAIN LowerOf THEN LowerOf[c] ELSE c

\* str::to_lowercase
ToLowercase(s) == [i \in 1..Len(s) |-> LowerChar(s[i])]

\* char::is_ascii_alphanumeric
IsAsciiAlphanumeric(c) == c \in UpperLetters \cup LowerLetters \cup Digits

----------------------------------------------------------------------------
(* Generic string operations of the Rust standard library *)

\* s[i..] starts with p (1-based i)
StartsWithAt(s, i, p) ==
    /\ i + Len(p) - 1 <= Len(s)
    /\ \A k \in 1..Len(p) : s[i + k - 1] = p[k]

\* str::ends_with
EndsWith(s, p) == Len(p) <= Len(s) /\ SubSeq(s, Len(s) - Len(p) + 1, Len(s)) = p

\* str::contains
Contains(s, p) == \E i \in 1..(Len(s) - Len(p) + 1) : StartsWithAt(s, i, p)

Min(S) == CHOOSE x \in S : \A y \in S : x <= y
Max(S) == CHOOSE x \in S : \A y \in S : x >= y

\* str::replace(pattern, to) with a non-empty literal pattern:
\* left to right, non-overlapping
RECURSIVE ReplaceFrom(_, _, _, _)
ReplaceFrom(s, i, p, to) ==
    LET starts == {j \in i..(Len(s) - Len(p) + 1) : StartsWithAt(s, j, p)}
    IN  IF starts = {} THEN SubSeq(s, i, Len(s))
        ELSE LET b == Min(starts)
             IN  SubSeq(s, i, b - 1) \o to \o ReplaceFrom(s, b + Len(p), p, to)

Replace(s, p, to) == ReplaceFrom(s, 1, p, to)

\* str::replace(|c| pred(c), "") : delete the characters outside Keep
DeleteUnless(s, Keep(_)) == SelectSeq(s, Keep)

----------------------------------------------------------------------------
(* slug *)

SlugKeepsHyphen(c) == c = " " \/ c = "-" \/ IsAsciiAlphanumeric(c)

\* the closure of slug's first replace, negated: the characters that stay
SlugKeeps(c) == c = " " \/ IsAsciiAlphanumeric(c)

slug(string) ==
    Replace(DeleteUnless(ToLowercase(string), SlugKeeps), <<" ">>, <<"-">>)

----------------------------------------------------------------------------
(* The `colored` crate: text.green() etc. rendered through format!/to_string *)

\* An escape sequence is two symbols: everything before its final letter
\* (ESC, the bracket, the digits) as one symbol, then the letter m itself
Reset   == <<"ESC[0", "m">>
Dimmed  == <<"ESC[2", "m">>
Red     == <<"ESC[31", "m">>
Green   == <<"ESC[32", "m">>
Yellow  == <<"ESC[33", "m">>
Blue    == <<"ESC[34", "m">>
Magenta == <<"ESC[35", "m">>
Cyan    == <<"ESC[36", "m">>

EscapePrefixes == {"ESC[0", "ESC[2", "ESC[31", "ESC[32", "ESC[33", "ESC[34", "ESC[35", "ESC[36"}

\* ColoredString::escape_inner_reset_sequences: the style is opened again
\* after every reset already inside the text
EscapeInnerResets(text, style) == Replace(text, Reset, Reset \o style)

\* text.red() etc. formatted: the style, the text, the reset
Colored(style, text) == style \o EscapeInnerResets(text, style) \o Reset

----------------------------------------------------------------------------
(* Character classes of the regex crate *)

\* \s
IsWhitespace(c) == c \in {" ", "\n", "\t"}

\* \w (Unicode word characters)
IsWordChar(c) == c \in UpperLetters \cup LowerLetters \cup Digits \cup {"_", "É", "é"}

\* first index j >= i with Stop(s[j]), or Len(s) + 1
FirstFrom(s, i, Stop(_)) ==
    LET C == {j \in i..Len(s) : Stop(s[j])}
    IN  IF C = {} THEN Len(s) + 1 ELSE Min(C)

\* (?m)^ : at the start of the text or right after a newline
AtLineStart(s, i) == i = 1 \/ s[i - 1] = "\n"

----------------------------------------------------------------------------
(* The patterns of colorize_functions_help.  For each pattern P,           *)
(* PEnd(s, i) is the index of the last symbol of the match that starts at  *)
(* i, or 0 when the pattern does not match at i.                           *)

\* The backtick character, written as a symbol of its own
Backtick == "BACKTICK"

\* QUOTE_REGEX: a double-quoted, single-quoted or backticked span that
\* holds at least one character and neither its own quote nor a newline
QuoteChars == {"\"", "'", Backtick}
QuoteEnd(s, i) ==
    IF s[i] \notin QuoteChars THEN 0
    ELSE LET q == s[i]
             StopQ(c) == c = q \/ c = "\n"
             j == FirstFrom(s, i + 1, StopQ)
         IN  IF j <= Len(s) /\ s[j] = q /\ j > i + 1 THEN j ELSE 0

\* MAIN_SECTION_REGEX  (?m)^##{0,2} .+
IsNewline(c) == c = "\n"
NotHash(c) == c # "#"
\* the pattern with its first # left out: (?m)^#{0,2} .+
MainSectionEndOptionalHash(s, i) ==
    IF ~AtLineStart(s, i) THEN 0
    ELSE LET h == FirstFrom(s, i, NotHash)
             eol == FirstFrom(s, i, IsNewline) - 1
         IN  IF h - i <= 2 /\ h <= Len(s) /\ s[h] = " " /\ eol > h
             THEN eol ELSE 0

MainSectionEnd(s, i) ==
    IF ~(AtLineStart(s, i) /\ s[i] = "#") THEN 0
    ELSE LET h == FirstFrom(s, i, NotHash)         \* the symbol after the #s
             eol == FirstFrom(s, i, IsNewline) - 1
         IN  IF h - i <= 3 /\ h <= Len(s) /\ s[h] = " " /\ eol > h
             THEN eol ELSE 0

\* URL_REGEX  https?://\S+
Http == <<"h","t","t","p">>
ColonSlashSlash == <<":","/","/">>
UrlEnd(s, i) ==
    IF ~StartsWithAt(s, i, Http) THEN 0
    ELSE LET j == IF StartsWithAt(s, i + 4, <<"s">> \o ColonSlashSlash)
                  THEN i + 8
                  ELSE IF StartsWithAt(s, i + 4, ColonSlashSlash) THEN i + 7
                  ELSE 0
         IN  IF j = 0 THEN 0
             ELSE LET e == FirstFrom(s, j, IsWhitespace) - 1
                  IN  IF e >= j THEN e ELSE 0

\* UNARY_OPERATOR_REGEX  ([!-])x
UnaryEnd(s, i) ==
    IF s[i] \in {"!", "-"} /\ i + 1 <= Len(s) /\ s[i + 1] = "x" THEN i + 1 ELSE 0

\* BINARY_OPERATOR_REGEX
\*   x (==|!=|<=?|>=?|&&|\|\||and|or|not in|in|eq|ne|lt|le|gt|ge|//|\*\*|\+\+|[+\-*/%]) y
BinaryOperators ==
    { <<"=","=">>, <<"!","=">>, <<"<">>, <<"<","=">>, <<">">>, <<">","=">>,
      <<"&","&">>, <<"|","|">>, <<"a","n","d">>, <<"o","r">>,
      <<"n","o","t"," ","i","n">>, <<"i","n">>, <<"e","q">>, <<"n","e">>,
      <<"l","t">>, <<"l","e">>, <<"g","t">>, <<"g","e">>, <<"/","/">>,
      <<"*","*">>, <<"+","+">>, <<"+">>, <<"-">>, <<"*">>, <<"/">>, <<"%">> }
BinaryEnd(s, i) ==
    LET M == {op \in BinaryOperators :
                StartsWithAt(s, i, <<"x", " ">> \o op \o <<" ", "y">>)}
    IN  IF M = {} THEN 0 ELSE i + 3 + Len(CHOOSE op \in M : TRUE)

\* PIPELINE_OPERATOR_REGEX  (trim\(name\) )\|
TrimName == <<"t","r","i","m","(","n","a","m","e",")"," ">>
PipelineEnd(s, i) ==
    IF StartsWithAt(s, i, TrimName \o <<"|">>) THEN i + Len(TrimName) ELSE 0

\* SLICE_REGEX  x\[([a-z:]+)\]
NotSliceChar(c) == c \notin LowerLetters \cup {":"}
SliceEnd(s, i) ==
    IF ~StartsWithAt(s, i, <<"x", "[">>) THEN 0
    ELSE LET j == FirstFrom(s, i + 2, NotSliceChar)
         IN  IF j > i + 2 /\ j <= Len(s) /\ s[j] = "]" THEN j ELSE 0

\* FLAG_REGEX  --[\w\-]+
NotFlagChar(c) == ~(IsWordChar(c) \/ c = "-")
FlagEnd(s, i) ==
    IF ~StartsWithAt(s, i, <<"-", "-">>) THEN 0
    ELSE LET j == FirstFrom(s, i + 2, NotFlagChar)
         IN  IF j > i + 2 THEN j - 1 ELSE 0

\* the slice closure: split on colons, color each part cyan, join with colons
RECURSIVE JoinCyanParts(_, _)
JoinCyanParts(s, part) ==
    IF s = <<>> THEN Colored(Cyan, part)
    ELSE IF Head(s) = ":"
         THEN Colored(Cyan, part) \o <<":">> \o JoinCyanParts(Tail(s), <<>>)
         ELSE JoinCyanParts(Tail(s), Append(part, Head(s)))

\* The replacement closures of colorize_functions_help; m is the match
QuoteRewrite(m) == Colored(Green, m)
MainSectionRewrite(m) == Colored(Yellow, m)
UrlRewrite(m) == Colored(Blue, m)
UnaryRewrite(m) == Colored(Cyan, <<m[1]>>) \o Colored(Red, <<"x">>)
BinaryRewrite(m) ==
    Colored(Red, <<"x">>) \o <<" ">> \o Colored(Cyan, SubSeq(m, 3, Len(m) - 2))
        \o <<" ">> \o Colored(Red, <<"y">>)
PipelineRewrite(m) == SubSeq(m, 1, Len(m) - 1) \o Colored(Cyan, <<"|">>)
SliceRewrite(m) ==
    Colored(Red, <<"x">>) \o <<"[">> \o JoinCyanParts(SubSeq(m, 3, Len(m) - 1), <<>>)
        \o <<"]">>
FlagRewrite(m) == Colored(Cyan, m)

\* Regex::replace_all: leftmost matches, left to right, non-overlapping.
\* The text from i on: copied up to the next match, the match rewritten,
\* and so on from the symbol after the match.
RECURSIVE ReplaceAllFrom(_, _, _, _)
ReplaceAllFrom(End(_, _), Rewrite(_), s, i) ==
    LET starts == {j \in i..Len(s) : End(s, j) # 0}
    IN  IF starts = {} THEN SubSeq(s, i, Len(s))
        ELSE LET b == Min(starts)
                 e == End(s, b)
             IN  SubSeq(s, i, b - 1) \o Rewrite(SubSeq(s, b, e))
                     \o ReplaceAllFrom(End, Rewrite, s, e + 1)

ReplaceAll(End(_, _), Rewrite(_), s) == ReplaceAllFrom(End, Rewrite, s, 1)

\* ANSI_COLOR_REGEX: ESC, bracket, digits and semicolons, m
AnsiEnd(s, i) ==
    IF s[i] \in EscapePrefixes /\ i + 1 <= Len(s) /\ s[i + 1] = "m" THEN i + 1 ELSE 0
AnsiRewrite(m) == <<>>

strip_ansi_colors(string) == ReplaceAll(AnsiEnd, AnsiRewrite, string)

\* The passes of colorize_functions_help
QuotePass(s) == ReplaceAll(QuoteEnd, QuoteRewrite, s)
MainSectionPass(s) == ReplaceAll(MainSectionEnd, MainSectionRewrite, s)
UrlPass(s) == ReplaceAll(UrlEnd, UrlRewrite, s)
UnaryPass(s) == ReplaceAll(UnaryEnd, UnaryRewrite, s)
BinaryPass(s) == ReplaceAll(BinaryEnd, BinaryRewrite, s)
PipelinePass(s) == ReplaceAll(PipelineEnd, PipelineRewrite, s)
SlicePass(s) == ReplaceAll(SliceEnd, SliceRewrite, s)
FlagPass(s) == ReplaceAll(FlagEnd, FlagRewrite, s)

colorize_functions_help(help) ==
    FlagPass(SlicePass(PipelinePass(BinaryPass(UnaryPass(UrlPass(
        MainSectionPass(QuotePass(help))))))))

----------------------------------------------------------------------------
(* textwrap, as help.rs uses it, and small std helpers *)

\* the width wrap() hands to textwrap::fill
WrapWidth == 81

RECURSIVE Concat(_)
\* [String]::join("") : the concatenation of a sequence of strings
Concat(ss) == IF ss = <<>> THEN <<>> ELSE Head(ss) \o Concat(Tail(ss))

RECURSIVE Join(_, _)
\* [String]::join(sep)
Join(ss, sep) ==
    IF ss = <<>> THEN <<>>
    ELSE IF Len(ss) = 1 THEN ss[1]
    ELSE ss[1] \o sep \o Join(Tail(ss), sep)

\* str::split('\n') : the lines of a text, a last empty one after a final newline
RECURSIVE SplitLines(_)
SplitLines(s) ==
    LET nl == {j \in 1..Len(s) : s[j] = "\n"}
    IN  IF nl = {} THEN <<s>>
        ELSE <<SubSeq(s, 1, Min(nl) - 1)>> \o SplitLines(SubSeq(s, Min(nl) + 1, Len(s)))

\* str::trim_end_matches(' ')
TrimEndSpaces(line) ==
    LET keep == {j \in 1..Len(line) : line[j] # " "}
    IN  IF keep = {} THEN <<>> ELSE SubSeq(line, 1, Max(keep))

\* wrap(string) = textwrap::fill(string, 81) on a text whose lines all fit
\* in WrapWidth columns (the model draws no longer line): no line is broken,
\* and trailing spaces of each line are discarded
wrap(string) ==
    Join([k \in 1..Len(SplitLines(string)) |-> TrimEndSpaces(SplitLines(string)[k])],
         <<"\n">>)

IsBlankLine(line) == \A j \in 1..Len(line) : IsWhitespace(line[j])

\* textwrap::indent(text, prefix): the prefix before every line that is not
\* blank; the line structure, a final newline included, is kept
indent(text, prefix) ==
    LET lines == SplitLines(text)
    IN  Join([k \in 1..Len(lines) |->
                IF IsBlankLine(lines[k]) THEN lines[k] ELSE prefix \o lines[k]],
             <<"\n">>)

FourSpaces == <<" ", " ", " ", " ">>

\* str::len of one character: its UTF-8 length in bytes
ByteLen(c) == IF c \in {"É", "é"} THEN 2 ELSE 1

RECURSIVE StrLen(_)
\* str::len
StrLen(s) == IF s = <<>> THEN 0 ELSE ByteLen(Head(s)) + StrLen(Tail(s))

\* Option<T> is a sequence of at most one T
None == <<>>
Some(v) == <<v>>
\* Option::iter().flatten() over an Option<Vec<T>>
Flatten(opt) == IF opt = <<>> THEN <<>> ELSE opt[1]

----------------------------------------------------------------------------
(* escape_markdown_argument, escape_markdown_linebreaks *)

escape_markdown_argument(string) ==
    Replace(Replace(Replace(string, <<"*">>, <<"\\", "*">>),
                    <<"<">>, <<"\\", "<">>),
            <<">">>, <<"\\", ">">>)

Br == <<"<", "b", "r", ">">>

escape_markdown_linebreaks_kept(string) == string

escape_markdown_linebreaks(string) ==
    Replace(Replace(string, <<"\n", "\n">>, Br), <<"\n">>, Br)

----------------------------------------------------------------------------
(* FunctionHelp: [name, arguments, returns, help, aliases, alternatives]    *)
(* arguments and aliases are Option<Vec<String>>, alternatives is           *)
(* Option<Vec<Vec<String>>>                                                 *)

ArgumentTxt(arg) ==
    IF arg # <<>> /\ arg[1] = "<" THEN Colored(Dimmed, arg) ELSE Colored(Red, arg)

join_arguments(arguments) ==
    Join([k \in 1..Len(arguments) |-> ArgumentTxt(arguments[k])], <<",", " ">>)

Arrow == <<" ", "-", ">", " ">>

\* single_form of FunctionHelp::to_txt
single_form_txt(name, args_opt, returns) ==
    IF args_opt # None
    THEN <<"-", " ">> \o Colored(Cyan, name) \o <<"(">> \o join_arguments(args_opt[1])
            \o <<")">> \o Arrow \o Colored(Magenta, returns) \o <<"\n">>
    ELSE <<"-", " ">> \o Colored(Cyan, name) \o Arrow \o Colored(Magenta, returns)
            \o <<"\n">>

TxtCallFormsAlternativesFirst(f) ==
    <<single_form_txt(f.name, f.arguments, f.returns)>>
    \o [k \in 1..Len(Flatten(f.alternatives)) |->
            single_form_txt(f.name, Some(Flatten(f.alternatives)[k]), f.returns)]
    \o [k \in 1..Len(Flatten(f.aliases)) |->
            single_form_txt(Flatten(f.aliases)[k], f.arguments, f.returns)]

\* The call forms of FunctionHelp::to_txt in the order they are pushed
TxtCallForms(f) ==
    <<single_form_txt(f.name, f.arguments, f.returns)>>
    \o [k \in 1..Len(Flatten(f.aliases)) |->
            single_form_txt(Flatten(f.aliases)[k], f.arguments, f.returns)]
    \o [k \in 1..Len(Flatten(f.alternatives)) |->
            single_form_txt(f.name, Some(Flatten(f.alternatives)[k]), f.returns)]

\* The help block FunctionHelp::to_txt pushes after the call forms
TxtHelpBlock(f) ==
    colorize_functions_help(indent(wrap(f.help), FourSpaces)) \o <<"\n", "\n">>

FunctionHelp_to_txt(f) == Concat(TxtCallForms(f)) \o TxtHelpBlock(f)

MdArgument(arg) == <<"*">> \o escape_markdown_argument(arg) \o <<"*">>
MdAlias(name) == <<"*", "*">> \o name \o <<"*", "*">>

AliasesOpen == <<" ", "(", "a", "l", "i", "a", "s", "e", "s", ":", " ">>

\* single_form of FunctionHelp::to_md
single_form_md(name, args_opt, returns, help, aliases) ==
    <<"-", " ", "*", "*">> \o name \o <<"*", "*">>
    \o (IF args_opt # None
        THEN <<"(">> \o Join([k \in 1..Len(args_opt[1]) |-> MdArgument(args_opt[1][k])],
                             <<",", " ">>) \o <<")">>
        ELSE <<>>)
    \o Arrow \o <<Backtick>> \o returns \o <<Backtick>>
    \o (IF aliases # None
        THEN AliasesOpen \o Join([k \in 1..Len(aliases[1]) |-> MdAlias(aliases[1][k])],
                                 <<",", " ">>) \o <<")">>
        ELSE <<>>)
    \o <<":", " ">> \o escape_markdown_linebreaks(help)

FunctionHelp_to_md(f) ==
    single_form_md(f.name, f.arguments, f.returns, f.help, f.aliases)
    \o Concat([k \in 1..Len(Flatten(f.alternatives)) |->
                <<"\n">> \o single_form_md(f.name, Some(Flatten(f.alternatives)[k]),
                                           f.returns, f.help, f.aliases)])
    \o <<"\n">>

----------------------------------------------------------------------------
(* The embedded documentation files (include_str!) *)

get_cheatsheet_str == files.cheatsheet
get_functions_help_prelude_str == files.functions_prelude
get_functions_help_json_str == files.functions_json
get_aggs_help_prelude_str == files.aggs_prelude
get_aggs_help_json_str == files.aggs_json
get_scraping_cheatsheet_str == files.scraping_md
get_scraping_functions_json_str == files.scraping_json

\* serde_json::from_str(json).unwrap(): files carries, next to the text of
\* each JSON file, the document that text deserializes to
parse_operators_help == files.operators
parse_functions_help == files.functions
parse_aggs_help == files.aggs
parse_scraping_help == files.scraping

----------------------------------------------------------------------------
(* Operators: OperatorHelpSections is a Vec of                              *)
(* [title, prelude : Option<String>, examples : Vec<[snippet, help]>]       *)

Hashes(n) == [k \in 1..n |-> "#"]
Spaces(n) == [k \in 1..n |-> " "]

\* the snippet right-aligned: format!("{:>width$} - {}", snippet, help)
OperatorExample_to_txt_right_aligned(example, width) ==
    IF example.help # None
    THEN Spaces(IF width > Len(example.snippet)
                THEN width - Len(example.snippet) ELSE 0)
            \o example.snippet \o <<" ", "-", " ">> \o example.help[1]
    ELSE example.snippet

\* format!("{:<width$} - {}", snippet, help): pads to width characters
OperatorExample_to_txt(example, width) ==
    IF example.help # None
    THEN example.snippet
            \o Spaces(IF width > Len(example.snippet)
                      THEN width - Len(example.snippet) ELSE 0)
            \o <<" ", "-", " ">> \o example.help[1]
    ELSE example.snippet

\* .map(|example| example.snippet.len()).max() : None on no example
MaxSnippetLen(section) ==
    IF section.examples = <<>> THEN None
    ELSE Some(Max({StrLen(section.examples[k].snippet) :
                      k \in 1..Len(section.examples)}))

\* max().unwrap() panics on a section without examples
OperatorHelpSection_panics(section) == MaxSnippetLen(section) = None

OperatorHelpSection_to_txt(section) ==
    LET max_width == MaxSnippetLen(section)[1]
    IN  Hashes(3) \o <<" ">> \o section.title \o <<"\n", "\n">>
        \o (IF section.prelude # None
            THEN wrap(section.prelude[1]) \o <<"\n", "\n">> ELSE <<>>)
        \o Concat([k \in 1..Len(section.examples) |->
                     indent(OperatorExample_to_txt(section.examples[k], max_width),
                            FourSpaces) \o <<"\n">>])
        \o <<"\n", "\n">>

TxtFence == <<Backtick, Backtick, Backtick, "t", "x", "t", "\n">>
CloseFence == <<Backtick, Backtick, Backtick, "\n", "\n">>

OperatorHelpSection_to_md(section) ==
    LET max_width == MaxSnippetLen(section)[1]
    IN  Hashes(3) \o <<" ">> \o section.title \o <<"\n", "\n">>
        \o (IF section.prelude # None
            THEN section.prelude[1] \o <<"\n", "\n">> ELSE <<>>)
        \o TxtFence
        \o Concat([k \in 1..Len(section.examples) |->
                     OperatorExample_to_txt(section.examples[k], max_width) \o <<"\n">>])
        \o CloseFence

OperatorsWord == <<"O","p","e","r","a","t","o","r","s">>
OperatorsHeader == Hashes(2) \o <<" ">> \o OperatorsWord \o <<"\n", "\n">>

OperatorHelpSections_txt_summary(ops) ==
    <<"-", " ">> \o OperatorsWord \o <<"\n">>
    \o Join([k \in 1..Len(ops) |-> FourSpaces \o <<"-", " ">> \o ops[k].title],
            <<"\n">>)
    \o <<"\n">>

MdLink(title) ==
    <<"[">> \o title \o <<"]", "(", "#">> \o slug(title) \o <<")">>

OperatorHelpSections_md_summary(ops) ==
    <<"-", " ">> \o MdLink(OperatorsWord) \o <<"\n">>
    \o Join([k \in 1..Len(ops) |-> FourSpaces \o <<"-", " ">> \o MdLink(ops[k].title)],
            <<"\n">>)
    \o <<"\n">>

\* both OperatorHelpSections::to_txt and ::to_md render every section
OperatorHelpSections_panics(ops) ==
    \E k \in 1..Len(ops) : OperatorHelpSection_panics(ops[k])

OperatorHelpSections_to_txt(ops) ==
    OperatorsHeader \o Concat([k \in 1..Len(ops) |-> OperatorHelpSection_to_txt(ops[k])])

OperatorHelpSections_to_md(ops) ==
    OperatorsHeader \o Concat([k \in 1..Len(ops) |-> OperatorHelpSection_to_md(ops[k])])

----------------------------------------------------------------------------
(* Functions: FunctionHelpSections is a Vec of [title, functions]           *)

FunctionHelpSection_to_txt(section) ==
    Colored(Yellow, Hashes(2) \o <<" ">> \o section.title \o <<"\n", "\n">>)
    \o Concat([k \in 1..Len(section.functions) |->
                 indent(FunctionHelp_to_txt(section.functions[k]), FourSpaces)])
    \o <<"\n">>

FunctionHelpSection_to_md(section) ==
    Hashes(2) \o <<" ">> \o section.title \o <<"\n", "\n">>
    \o Concat([k \in 1..Len(section.functions) |->
                 FunctionHelp_to_md(section.functions[k])])
    \o <<"\n">>

OperatorsLower == <<"o","p","e","r","a","t","o","r","s">>

should_keep_operators_reversed(section) ==
    IF section # None
    THEN Contains(ToLowercase(section[1]), <<"o","p","e","r","a","t","o","r">>)
    ELSE TRUE

\* should_keep_operators of FunctionHelpSections::to_txt; section is Option<String>
should_keep_operators(section) ==
    IF section # None
    THEN Contains(OperatorsLower, ToLowercase(section[1]))
    ELSE TRUE

SectionMatchesCaseSensitive(s, query) == Contains(s.title, query)

\* filtered_sections of FunctionHelpSections::to_txt
SectionMatches(s, query) == Contains(ToLowercase(s.title), ToLowercase(query))
filtered_sections(self, section) ==
    IF section # None
    THEN LET Keep(s) == SectionMatches(s, section[1]) IN SelectSeq(self, Keep)
    ELSE self

\* operator_sections.to_txt() called whether or not the block is kept
FunctionHelpSections_to_txt_panics_eagerly(operator_sections, section) ==
    OperatorHelpSections_panics(operator_sections)

\* the panic of operator_sections.to_txt() is reached only when the
\* Operators block is rendered
FunctionHelpSections_to_txt_panics(operator_sections, section) ==
    should_keep_operators(section) /\ OperatorHelpSections_panics(operator_sections)

TxtSummaryLine(s) == <<"-", " ">> \o s.title

FunctionHelpSections_to_txt(self, operator_sections, section) ==
    LET filtered == filtered_sections(self, section)
    IN  \* Prelude
        colorize_functions_help(get_functions_help_prelude_str) \o <<"\n">>
        \* Summary
        \o (IF should_keep_operators(section)
            THEN OperatorHelpSections_txt_summary(operator_sections) ELSE <<>>)
        \o Join([k \in 1..Len(filtered) |-> TxtSummaryLine(filtered[k])], <<"\n">>)
        \o <<"\n", "\n">>
        \* Operators
        \o (IF should_keep_operators(section)
            THEN colorize_functions_help(OperatorHelpSections_to_txt(operator_sections))
            ELSE <<>>)
        \* Sections
        \o Concat([k \in 1..Len(filtered) |-> FunctionHelpSection_to_txt(filtered[k])])

FunctionHelpSections_to_md_panics(operator_sections) ==
    OperatorHelpSections_panics(operator_sections)

FunctionHelpSections_to_md(self, operator_sections) ==
    \* Prelude
    get_functions_help_prelude_str \o <<"\n">>
    \* Summary
    \o OperatorHelpSections_md_summary(operator_sections)
    \o Join([k \in 1..Len(self) |-> <<"-", " ">> \o MdLink(self[k].title)], <<"\n">>)
    \o <<"\n", "\n">>
    \* Operators
    \o OperatorHelpSections_to_md(operator_sections) \o <<"\n">>
    \* Sections
    \o Concat([k \in 1..Len(self) |-> FunctionHelpSection_to_md(self[k])])

----------------------------------------------------------------------------
(* The patterns of recombobulate_cheatsheet *)

\* \b between s[i - 1] and s[i]: exactly one of the two is a word character
\* (the ends of the text count as non-word)
WordAt(s, i) == i >= 1 /\ i <= Len(s) /\ IsWordChar(s[i])
WordBoundary(s, i) == WordAt(s, i - 1) # WordAt(s, i)

\* NUMBER_REGEX  (?m)\b-?[0-9][0-9._]*\b
NotNumberChar(c) == c \notin Digits \cup {".", "_"}
NumberEnd(s, i) ==
    LET d == IF s[i] = "-" THEN i + 1 ELSE i          \* the first digit
    IN  IF ~(WordBoundary(s, i) /\ d <= Len(s) /\ s[d] \in Digits) THEN 0
        ELSE LET last == FirstFrom(s, d, NotNumberChar) - 1
                 ends == {e \in d..last : WordBoundary(s, e + 1)}
             IN  IF ends = {} THEN 0 ELSE Max(ends)
NumberRewrite(m) == Colored(Red, m)
NumberPass(s) == ReplaceAll(NumberEnd, NumberRewrite, s)

\* LINK_REGEX  - \[([^\]]+)\]\(#[^)]+\)
IsCloseBracket(c) == c = "]"
IsCloseParen(c) == c = ")"
LinkEnd(s, i) ==
    IF ~StartsWithAt(s, i, <<"-", " ", "[">>) THEN 0
    ELSE LET b == FirstFrom(s, i + 3, IsCloseBracket)
         IN  IF ~(b > i + 3 /\ StartsWithAt(s, b, <<"]", "(", "#">>)) THEN 0
             ELSE LET p == FirstFrom(s, b + 3, IsCloseParen)
                  IN  IF p > b + 3 /\ p <= Len(s) THEN p ELSE 0
\* "- $1"
LinkRewrite(m) ==
    <<"-", " ">> \o SubSeq(m, 4, FirstFrom(m, 4, IsCloseBracket) - 1)
LinkPass(s) == ReplaceAll(LinkEnd, LinkRewrite, s)

\* SPECIAL_REGEX  true|false|null|/john/i?
SpecialEnd(s, i) ==
    IF StartsWithAt(s, i, <<"t","r","u","e">>) THEN i + 3
    ELSE IF StartsWithAt(s, i, <<"f","a","l","s","e">>) THEN i + 4
    ELSE IF StartsWithAt(s, i, <<"n","u","l","l">>) THEN i + 3
    ELSE IF StartsWithAt(s, i, <<"/","j","o","h","n","/">>)
         THEN (IF StartsWithAt(s, i + 6, <<"i">>) THEN i + 6 ELSE i + 5)
    ELSE 0
SpecialRewrite(m) == Colored(Yellow, m)

\* FUNCTION_CALL_REGEX  ([a-z_]+)\(
NotCallChar(c) == c \notin LowerLetters \cup {"_"}
FunctionCallEnd(s, i) ==
    IF NotCallChar(s[i]) THEN 0
    ELSE LET j == FirstFrom(s, i, NotCallChar)
         IN  IF j <= Len(s) /\ s[j] = "(" THEN j ELSE 0
FunctionCallRewrite(m) == Colored(Blue, SubSeq(m, 1, Len(m) - 1)) \o <<"(">>

\* OPERATORS_REGEX  a space, one of => eq in as || < > / +, a space
FenceOperators ==
    { <<"=",">">>, <<"e","q">>, <<"i","n">>, <<"a","s">>, <<"|","|">>,
      <<"<">>, <<">">>, <<"/">>, <<"+">> }
OperatorsEnd(s, i) ==
    LET M == {op \in FenceOperators : StartsWithAt(s, i, <<" ">> \o op \o <<" ">>)}
    IN  IF M = {} THEN 0 ELSE i + 1 + Len(CHOOSE op \in M : TRUE)
OperatorsRewrite(m) == <<" ">> \o Colored(Cyan, SubSeq(m, 2, Len(m) - 1)) \o <<" ">>

\* CODE_FENCE_REGEX: three backticks, python or scss or javascript, then the
\* captured interior (a newline and at least one more symbol, none of them a
\* backtick), then three backticks
Fence == <<Backtick, Backtick, Backtick>>
FenceLanguages ==
    { <<"p","y","t","h","o","n">>, <<"s","c","s","s">>,
      <<"j","a","v","a","s","c","r","i","p","t">> }
IsBacktick(c) == c = Backtick
\* the index of the interior's newline in a text that opens a fence at i, or 0
FenceInterior(s, i) ==
    LET L == {lang \in FenceLanguages : StartsWithAt(s, i, Fence \o lang \o <<"\n">>)}
    IN  IF L = {} THEN 0 ELSE i + 3 + Len(CHOOSE lang \in L : TRUE)
CodeFenceEnd(s, i) ==
    LET n == FenceInterior(s, i)
    IN  IF n = 0 THEN 0
        ELSE LET k == FirstFrom(s, n + 1, IsBacktick)
             IN  IF k > n + 1 /\ StartsWithAt(s, k, Fence) THEN k + 2 ELSE 0
CodeFenceRewrite(m) ==
    LET inner == SubSeq(m, FenceInterior(m, 1), Len(m) - 3)
        text1 == ReplaceAll(SpecialEnd, SpecialRewrite, inner)
        text2 == ReplaceAll(FunctionCallEnd, FunctionCallRewrite, text1)
        text3 == ReplaceAll(OperatorsEnd, OperatorsRewrite, text2)
    IN  indent(text3, FourSpaces)
CodeFencePass(s) == ReplaceAll(CodeFenceEnd, CodeFenceRewrite, s)

\* COMMENT_REGEX  (?m)^    (?:\x1b\[[0-9;]*m)?#.+
CommentEnd(s, i) ==
    IF ~(AtLineStart(s, i) /\ StartsWithAt(s, i, FourSpaces)) THEN 0
    ELSE LET h == IF AnsiEnd(s, i + 4) # 0 /\ StartsWithAt(s, i + 6, <<"#">>)
                  THEN i + 6
                  ELSE IF StartsWithAt(s, i + 4, <<"#">>) THEN i + 4 ELSE 0
             eol == FirstFrom(s, i, IsNewline) - 1
         IN  IF h # 0 /\ eol > h THEN eol ELSE 0
CommentRewrite(m) == Colored(Dimmed, strip_ansi_colors(m))
CommentPass(s) == ReplaceAll(CommentEnd, CommentRewrite, s)

FunctionsLink ==
    <<"[",Backtick,"x","a","n"," ","h","e","l","p"," ","f","u","n","c","t","i","o","n",
      "s",Backtick,"]","(",".","/","f","u","n","c","t","i","o","n","s",".","m","d",")">>
FunctionsSpan ==
    <<Backtick,"x","a","n"," ","h","e","l","p"," ","f","u","n","c","t","i","o","n","s",
      Backtick>>
CheatsheetLink ==
    <<"[",Backtick,"x","a","n"," ","h","e","l","p"," ","c","h","e","a","t","s","h","e",
      "e","t",Backtick,"]","(",".","/","c","h","e","a","t","s","h","e","e","t",".",
      "m","d",")">>
CheatsheetSpan ==
    <<Backtick,"x","a","n"," ","h","e","l","p"," ","c","h","e","a","t","s","h","e","e",
      "t",Backtick>>
AggsLink ==
    <<"[",Backtick,"x","a","n"," ","h","e","l","p"," ","a","g","g","s",Backtick,"]",
      "(",".","/","a","g","g","s",".","m","d",")">>
AggsSpan == <<Backtick,"x","a","n"," ","h","e","l","p"," ","a","g","g","s",Backtick>>

\* the replacements without the one of the functions link
ReplaceCrossReferencesButFunctions(help) ==
    Replace(Replace(help, CheatsheetLink, CheatsheetSpan), AggsLink, AggsSpan)

\* the three help.replace(link, span) of recombobulate_cheatsheet
ReplaceCrossReferences(help) ==
    Replace(Replace(Replace(help, FunctionsLink, FunctionsSpan),
                    CheatsheetLink, CheatsheetSpan),
            AggsLink, AggsSpan)

recombobulate_cheatsheet(help) ==
    CommentPass(CodeFencePass(LinkPass(colorize_functions_help(
        NumberPass(ReplaceCrossReferences(help))))))

get_colorized_cheatsheet == recombobulate_cheatsheet(get_cheatsheet_str)

----------------------------------------------------------------------------
(* Aggs (a Vec of FunctionHelp) and ScrapingHelp *)

IndentedTxt(helps) ==
    Concat([k \in 1..Len(helps) |-> indent(FunctionHelp_to_txt(helps[k]), FourSpaces)])
AllMd(helps) == Concat([k \in 1..Len(helps) |-> FunctionHelp_to_md(helps[k])])

Aggs_to_txt(self) ==
    colorize_functions_help(get_aggs_help_prelude_str) \o <<"\n">> \o IndentedTxt(self)

Aggs_to_md(self) == get_aggs_help_prelude_str \o <<"\n">> \o AllMd(self)

SelectorHeader ==
    <<"#","#"," ","S","e","l","e","c","t","o","r"," ","f","u","n","c","t","i","o","n","s">>
ExtractorHeader ==
    <<"#","#"," ","E","x","t","r","a","c","t","o","r"," ","f","u","n","c","t","i","o","n","s">>

ScrapingHelp_to_txt(self) ==
    recombobulate_cheatsheet(get_scraping_cheatsheet_str)
    \o <<"\n", "\n">> \o Colored(Yellow, SelectorHeader) \o <<"\n", "\n">>
    \o IndentedTxt(self.selectors)
    \o <<"\n">> \o Colored(Yellow, ExtractorHeader) \o <<"\n", "\n">>
    \o IndentedTxt(self.extractors)

ScrapingHelp_to_md(self) ==
    get_scraping_cheatsheet_str
    \o <<"\n", "\n">> \o SelectorHeader \o <<"\n", "\n">>
    \o AllMd(self.selectors)
    \o <<"\n">> \o ExtractorHeader \o <<"\n", "\n">>
    \o AllMd(self.extractors)

----------------------------------------------------------------------------
(* The statements of the two colorizers, in the order of the source *)

\* the same statements with the header pass moved before the quote pass
InlineStatementsHeadersFirst ==
    <<"main_section", "quote", "url", "unary", "binary", "pipeline", "slice", "flag">>

\* colorize_functions_help: one replace_all per statement
InlineStatements ==
    <<"quote", "main_section", "url", "unary", "binary", "pipeline", "slice", "flag">>

\* recombobulate_cheatsheet: the three replace as one statement, and the
\* call of colorize_functions_help in the third place
CheatsheetStatements ==
    <<"cross_references", "number", "colorize_functions_help",
      "link", "code_fence", "comment">>

\* what the statement of that name makes of the buffer
ApplyStatement(name, buffer) ==
    CASE name = "quote" -> QuotePass(buffer)
      [] name = "main_section" -> MainSectionPass(buffer)
      [] name = "url" -> UrlPass(buffer)
      [] name = "unary" -> UnaryPass(buffer)
      [] name = "binary" -> BinaryPass(buffer)
      [] name = "pipeline" -> PipelinePass(buffer)
      [] name = "slice" -> SlicePass(buffer)
      [] name = "flag" -> FlagPass(buffer)
      [] name = "cross_references" -> ReplaceCrossReferences(buffer)
      [] name = "number" -> NumberPass(buffer)
      [] name = "link" -> LinkPass(buffer)
      [] name = "code_fence" -> CodeFencePass(buffer)
      [] name = "comment" -> CommentPass(buffer)

----------------------------------------------------------------------------
(* run: `xan help <cmd> [options]`                                          *)
(* args is the Args of the invocation; sink is what has been written to the *)
(* pager so far; effects lists, in order, what the invocation has done.     *)

DocsUrl ==
    <<"h","t","t","p","s",":","/","/","g","i","t","h","u","b",".","c","o","m","/",
      "m","e","d","i","a","l","a","b","/","x","a","n","/","b","l","o","b","/",
      "m","a","s","t","e","r","/","d","o","c","s","/","m","o","o","n","b","l","a",
      "d","e","/">>
DotMd == <<".","m","d">>
CmdName(cmd) ==
    CASE cmd = "cheatsheet" -> <<"c","h","e","a","t","s","h","e","e","t">>
      [] cmd = "functions" -> <<"f","u","n","c","t","i","o","n","s">>
      [] cmd = "aggs" -> <<"a","g","g","s">>
      [] cmd = "scraping" -> <<"s","c","r","a","p","i","n","g">>

\* Args::open: the browser is opened on the page of the subcommand, or the
\* expect panics
Args_open ==
    /\ runPc = "start"
    /\ args.flag_open
    /\ \/ /\ browser' = Some(DocsUrl \o CmdName(args.cmd) \o DotMd)
          /\ effects' = Append(effects, "open_browser")
          /\ result' = "Ok"
          /\ runPc' = "returned"
       \/ /\ runPc' = "panicked"
          /\ UNCHANGED <<browser, effects, result>>
    /\ UNCHANGED <<files, args, sink, pager, slugVars, entryVars, fnVars, colorVars, opVars,
                   chainVars>>

NotOpen ==
    /\ runPc = "start"
    /\ ~args.flag_open
    /\ runPc' = "pager_check"
    /\ UNCHANGED <<files, args, sink, pager, browser, effects, result,
                   slugVars, entryVars, fnVars, colorVars, opVars,
                   chainVars>>

\* if args.flag_pager && (args.flag_json || args.flag_md) { Err(..)? }
CheckPagerFlags ==
    /\ runPc = "pager_check"
    /\ IF args.flag_pager /\ (args.flag_json \/ args.flag_md)
       THEN result' = "Err: -p/--pager does not work with --json nor --md!"
            /\ runPc' = "returned"
       ELSE result' = result /\ runPc' = "section_check"
    /\ UNCHANGED <<files, args, sink, pager, browser, effects,
                   slugVars, entryVars, fnVars, colorVars, opVars,
                   chainVars>>

\* the condition with its negation lost
InvalidFilterTargetInverted == args.flag_section # None /\ args.cmd = "functions"

\* args.flag_section.is_some() && !args.cmd_functions
InvalidFilterTarget == args.flag_section # None /\ args.cmd # "functions"

\* if args.flag_section.is_some() && !args.cmd_functions { Err(..)? }
CheckSectionFlag ==
    /\ runPc = "section_check"
    /\ IF InvalidFilterTarget
       THEN result' = "Err: -S/--section <query> only works with the functions subcommand!"
            /\ runPc' = "returned"
       ELSE result' = result /\ runPc' = "new_pager"
    /\ UNCHANGED <<files, args, sink, pager, browser, effects,
                   slugVars, entryVars, fnVars, colorVars, opVars,
                   chainVars>>

\* Pager::new(args.flag_pager)?; pager.set_prompt("xan help <cmd>")?
PromptPrefix == <<"x","a","n"," ","h","e","l","p"," ">>
NewPager ==
    /\ runPc = "new_pager"
    /\ pager' = Some([paging |-> args.flag_pager,
                      prompt |-> PromptPrefix \o CmdName(args.cmd)])
    /\ effects' = Append(effects, "new_pager")
    /\ runPc' = "dispatch"
    /\ UNCHANGED <<files, args, sink, browser, result,
                   slugVars, entryVars, fnVars, colorVars, opVars,
                   chainVars>>

\* write!(&mut pager, "{}", text) and writeln!(&mut pager, "{}", text)
write(out, text) == out \o text
writeln_bare(out, text) == out \o text
writeln(out, text) == out \o text \o <<"\n">>

\* the argument of write! / writeln! is evaluated before anything is written
RenderPanics ==
    /\ args.cmd = "functions"
    /\ ~args.flag_json
    /\ IF args.flag_md
       THEN FunctionHelpSections_to_md_panics(parse_operators_help)
       ELSE FunctionHelpSections_to_txt_panics(parse_operators_help, args.flag_section)

\* what the branch of the invocation writes to the pager
Written(out) ==
    CASE args.cmd = "cheatsheet" ->
            IF args.flag_md THEN writeln(out, get_cheatsheet_str)
            ELSE writeln(out, get_colorized_cheatsheet)
      [] args.cmd = "functions" ->
            IF args.flag_json THEN writeln(out, get_functions_help_json_str)
            ELSE IF args.flag_md
            THEN write(out, FunctionHelpSections_to_md(parse_functions_help,
                                                       parse_operators_help))
            ELSE write(out, FunctionHelpSections_to_txt(parse_functions_help,
                                   parse_operators_help, args.flag_section))
      [] args.cmd = "aggs" ->
            IF args.flag_json THEN writeln(out, get_aggs_help_json_str)
            ELSE IF args.flag_md THEN write(out, Aggs_to_md(parse_aggs_help))
            ELSE write(out, Aggs_to_txt(parse_aggs_help))
      [] args.cmd = "scraping" ->
            IF args.flag_json THEN writeln(out, get_scraping_functions_json_str)
            ELSE IF args.flag_md THEN write(out, ScrapingHelp_to_md(parse_scraping_help))
            ELSE write(out, ScrapingHelp_to_txt(parse_scraping_help))

Rendered == ~args.flag_json /\ ~(args.cmd = "cheatsheet" /\ args.flag_md)

Dispatch ==
    /\ runPc = "dispatch"
    /\ IF args.cmd = "cheatsheet" /\ args.flag_json
       THEN /\ result' = "Err: cheatsheet does not support --json!"
            /\ runPc' = "returned"
            /\ UNCHANGED <<sink, effects>>
       ELSE IF RenderPanics
       THEN /\ effects' = Append(effects, "render")
            /\ runPc' = "panicked"
            /\ UNCHANGED <<sink, result>>
       ELSE /\ sink' = Written(sink)
            /\ effects' = effects \o (IF Rendered THEN <<"render">> ELSE <<>>)
                                  \o <<"write">>
            /\ runPc' = "print"
            /\ result' = result
    /\ UNCHANGED <<files, args, pager, browser, slugVars, entryVars, fnVars, colorVars, opVars,
                   chainVars>>

\* pager.print()?; Ok(())
PagerPrint ==
    /\ runPc = "print"
    /\ effects' = Append(effects, "print")
    /\ result' = "Ok"
    /\ runPc' = "returned"
    /\ UNCHANGED <<files, args, sink, pager, browser,
                   slugVars, entryVars, fnVars, colorVars, opVars,
                   chainVars>>

RunNext ==
    \/ Args_open
    \/ NotOpen
    \/ CheckPagerFlags
    \/ CheckSectionFlag
    \/ NewPager
    \/ Dispatch
    \/ PagerPrint

----------------------------------------------------------------------------
(* Bounds *)

MaxTitleLen == 4

RECURSIVE SeqsUpTo(_, _)
SeqsUpTo(S, n) ==
    IF n = 0 THEN {<<>>}
    ELSE LET shorter == SeqsUpTo(S, n - 1)
         IN  shorter \cup {Append(t, c) : t \in shorter, c \in S}

MaxAliases == 2
MaxAlternatives == 2

MaxSections == 2
MaxFragments == 3
MaxExamples == 2

\* the values of an Option<T> over the T of S
OptionOf(S) == {None} \cup {Some(v) : v \in S}

----------------------------------------------------------------------------
(* Documentation the harnesses draw their embedded files from *)

MkFunction(name, args_opt, returns, help) ==
    [name |-> name, arguments |-> args_opt, returns |-> returns, help |-> help,
     aliases |-> None, alternatives |-> None]

UpperFn == MkFunction(<<"u","p","p","e","r">>, Some(<< <<"<","s",">">> >>),
                      <<"s","t","r">>, <<"U","p"," ","-","x",".">>)
AbsFn == MkFunction(<<"a","b","s">>, None, <<"n","u","m">>, <<"A","b","s",".">>)

\* FunctionHelpSection values
SectionLibrary ==
    { [title |-> <<"S","t","r","i","n","g","s">>, functions |-> <<UpperFn>>],
      [title |-> <<"M","A","T","H"," ","o","p","s">>, functions |-> <<AbsFn>>],
      [title |-> <<"O","p","e","r","a","t","o","r","s"," ","m","i","s","c">>,
       functions |-> <<>>],
      [title |-> <<"D","a","t","e","s">>, functions |-> <<>>] }

\* OperatorHelpSection values
ArithmeticSection ==
    [title |-> <<"A","r","i","t","h","m","e","t","i","c">>,
     prelude |-> Some(<<"I","n","f","i","x",".">>),
     examples |-> << [snippet |-> <<"x"," ","+"," ","y">>,
                      help |-> Some(<<"a","d","d">>)],
                     [snippet |-> <<"-","x">>, help |-> None] >>]
EmptySection ==
    [title |-> <<"M","i","s","c">>, prelude |-> None, examples |-> <<>>]

\* OperatorHelpSections values: the second holds a section without examples
OperatorDocs == { <<ArithmeticSection>>, <<ArithmeticSection, EmptySection>> }

FunctionsPrelude == <<"#"," ","F","n","s","\n","\n","U","s","e"," ","-","-","a",".","\n">>

\* the -S/--section queries
Queries ==
    { <<>>, <<"o","p">>, <<"O","P","E","R","A","T","O","R","S">>,
      <<"o","p","e","r","a","t","o","r">>,
      <<"o","p","e","r","a","t","o","r","s","!">>,
      <<"m","y"," ","o","p","e","r","a","t","o","r","s">>,
      <<"s">>, <<"S","T","R">>, <<"m","a","t","h">>, <<"r","a","t">>, <<"z">> }

NoFiles ==
    [cheatsheet |-> <<>>, operators |-> <<>>,
     functions_prelude |-> <<>>, functions_json |-> <<>>, functions |-> <<>>,
     aggs_prelude |-> <<>>, aggs_json |-> <<>>, aggs |-> <<>>,
     scraping_md |-> <<>>, scraping_json |-> <<>>,
     scraping |-> [selectors |-> <<>>, extractors |-> <<>>]]

----------------------------------------------------------------------------
(* Each harness leaves the variables of the others at these values *)

SlugIdle ==
    /\ slugIn = <<>>
    /\ slugOnce = <<>>
    /\ slugTwice = <<>>
    /\ slugPc = "idle"

EntryIdle ==
    /\ entry = [name |-> <<>>, arguments |-> <<>>, returns |-> <<>>, help |-> <<>>,
                aliases |-> <<>>, alternatives |-> <<>>]
    /\ entryOut = <<>>
    /\ entryPc = "idle"

FnIdle ==
    /\ fnSection = None
    /\ fnOut = <<>>
    /\ fnPc = "idle"

RunIdle ==
    /\ args = [cmd |-> "cheatsheet", flag_open |-> FALSE, flag_pager |-> FALSE,
               flag_section |-> None, flag_json |-> FALSE, flag_md |-> FALSE]
    /\ sink = <<>>
    /\ pager = None
    /\ browser = None
    /\ effects = <<>>
    /\ result = "none"
    /\ runPc = "idle"

ColorIdle ==
    /\ colorIn = <<>>
    /\ colorOut = <<>>
    /\ colorPc = "idle"

OpIdle ==
    /\ opSection = [title |-> <<>>, prelude |-> None, examples |-> <<>>]
    /\ opOut = <<>>
    /\ opPc = "idle"

ChainIdle ==
    /\ chainKind = "idle"
    /\ chainBufs = <<>>
    /\ chainLog = <<>>

FilesIdle == files = NoFiles

----------------------------------------------------------------------------
(* Embedded files and command lines the run harness draws from *)

\* cheatsheet.md: the cross-reference in a paragraph; after a heading with a
\* flag, an unpaired backtick and next to another cross-reference; and a
\* text without any cross-reference
CheatsheetTexts ==
    { <<"#"," ","C","\n","S","e","e"," ">> \o FunctionsLink \o <<".","\n">>,
      <<"#","#"," ","G","o"," ","-","-","f","a","r","\n","A"," ",Backtick," ",
        "t","h","e","n"," ">> \o FunctionsLink \o <<","," ">> \o AggsLink
        \o <<" ","2","\n">>,
      <<"x","[","a",":","b","]"," ","i","s"," ","-","x","\n">> }

\* functions.json, with and without a final newline
FunctionsJsonTexts ==
    { <<"[","{","\"","t","i","t","l","e","\"",":","\"","S","\"","}","]","\n">>,
      <<"[","]">> }
AggsJsonText == <<"[","{","\"","n","a","m","e","\"",":","\"","s","u","m","\"","}","]">>
ScrapingJsonText ==
    <<"{","\"","s","e","l","e","c","t","o","r","s","\"",":","[","]","}","\n">>
AggsPrelude == <<"#"," ","A","g","g","s","\n","\n","U","s","e"," ","x"," ","+"," ","y",".">>
ScrapingText ==
    <<"#"," ","S","c","r","a","p","i","n","g","\n","\n","-"," ","[","S","e","l","]",
      "(","#","s","e","l",")">>

StringsSection == [title |-> <<"S","t","r","i","n","g","s">>, functions |-> <<UpperFn>>]

RunFiles ==
    { [cheatsheet |-> c, operators |-> ops,
       functions_prelude |-> FunctionsPrelude, functions_json |-> fj,
       functions |-> <<StringsSection>>,
       aggs_prelude |-> AggsPrelude, aggs_json |-> AggsJsonText, aggs |-> <<AbsFn>>,
       scraping_md |-> ScrapingText, scraping_json |-> ScrapingJsonText,
       scraping |-> [selectors |-> <<UpperFn>>, extractors |-> <<AbsFn>>]] :
      c \in CheatsheetTexts, ops \in OperatorDocs, fj \in FunctionsJsonTexts }

Commands == {"cheatsheet", "functions", "aggs", "scraping"}
RunQueries == { <<"o","p">>, <<"s","t","r">>, <<"z">> }
ArgsSet ==
    [cmd : Commands, flag_open : BOOLEAN, flag_pager : BOOLEAN,
     flag_section : OptionOf(RunQueries), flag_json : BOOLEAN, flag_md : BOOLEAN]

----------------------------------------------------------------------------
(* Texts the colorizer harness draws from: up to MaxFragments fragments     *)

Fragments ==
    { <<"m","a","t","r","i","x">>, <<"[","i","]">>, <<"x","[","a",":","b","]">>,
      <<" ">>, <<"\n">>, <<"o","r">>, <<"t","r","u","e">>,
      <<"x">>, <<"y">>, <<"(",")">>, <<"-">>, <<"#"," ","H">>,
      <<"\"","q","\"">>, <<"7">>, <<"h","t","t","p",":","/","/","u">> }

ColorTexts ==
    { Concat(fs) : fs \in SeqsUpTo(Fragments, MaxFragments) }

----------------------------------------------------------------------------
(* Operator harness: one OperatorHelpSection rendered by                    *)
(* OperatorHelpSection::to_txt or ::to_md                                   *)

Snippets == { <<"x">>, <<"-","x">>, <<"x"," ","+"," ","y">>, <<"É","x","y">> }
ExampleHelps == { <<"a","d","d","s">>, <<"n","o","t"," ","-"," ","x">> }
Examples == [snippet : Snippets, help : OptionOf(ExampleHelps)]
OperatorSections ==
    [title : { <<"O","p","s">> },
     prelude : OptionOf({ <<"I","n","f","i","x",".">> }),
     examples : SeqsUpTo(Examples, MaxExamples)]

OpStart ==
    /\ opSection \in OperatorSections
    /\ opOut = <<>>
    /\ opPc = "start"

RenderOperatorsTxt ==
    /\ opPc = "start"
    /\ IF OperatorHelpSection_panics(opSection)
       THEN opPc' = "panicked" /\ opOut' = opOut
       ELSE opPc' = "txt" /\ opOut' = OperatorHelpSection_to_txt(opSection)
    /\ UNCHANGED <<files, opSection, slugVars, entryVars, fnVars, runVars, colorVars,
                   chainVars>>

RenderOperatorsMd ==
    /\ opPc = "start"
    /\ IF OperatorHelpSection_panics(opSection)
       THEN opPc' = "panicked" /\ opOut' = opOut
       ELSE opPc' = "md" /\ opOut' = OperatorHelpSection_to_md(opSection)
    /\ UNCHANGED <<files, opSection, slugVars, entryVars, fnVars, runVars, colorVars,
                   chainVars>>

OpNext == RenderOperatorsTxt \/ RenderOperatorsMd

OpInit == OpStart /\ FilesIdle /\ SlugIdle /\ EntryIdle /\ FnIdle /\ RunIdle /\ ColorIdle
    /\ ChainIdle

SpecOp == OpInit /\ [][OpNext]_vars

----------------------------------------------------------------------------
(* Pass harness: colorize_functions_help and recombobulate_cheatsheet run   *)
(* one statement at a time on a text                                        *)

ChainTexts ==
    { <<"#"," ","\"","q","\""," ","-","-","f","\n">>,
      <<"-","-","x","m","l"," ","-","x"," ","!","x">>,
      <<"x","[","a",":","b","]"," ","\"","x"," ","+"," ","y","\"">>,
      <<"h","t","t","p",":","/","/","a","/","-","x"," ","x"," ","/","/"," ","y">>,
      <<"-"," ","[","t"," ","1","]","(","#","a",")","\n">>,
      <<Backtick,Backtick,Backtick,"s","c","s","s","\n","#"," ","c","\n",
        "l","e","n","(","x",")"," ","+"," ","t","r","u","e","\n",
        Backtick,Backtick,Backtick,"\n">>,
      <<" "," "," "," ","#"," ","n","o","t","e"," ","2","\n">>,
      <<"S","e","e"," ">> \o FunctionsLink \o <<" ","3",".","5","\n">>,
      <<"t","r","i","m","(","n","a","m","e",")"," ","|"," ","-","-","n","o","-","x">>,
      <<"p","l","a","i","n">> }

ChainStart ==
    /\ chainKind \in {"inline", "cheatsheet"}
    /\ \E text \in ChainTexts : chainBufs = <<text>>
    /\ chainLog = <<>>

\* the statements of recombobulate_cheatsheet before and after its call of
\* colorize_functions_help
InCall ==
    /\ chainKind = "cheatsheet"
    /\ Len(chainLog) >= 2
    /\ Len(chainLog) < 2 + Len(InlineStatements)

\* the next statement of colorize_functions_help, called on its own or from
\* recombobulate_cheatsheet
InlineStatement ==
    /\ \/ chainKind = "inline" /\ Len(chainLog) < Len(InlineStatements)
       \/ InCall
    /\ LET k == IF chainKind = "inline" THEN Len(chainLog) + 1 ELSE Len(chainLog) - 1
           name == InlineStatements[k]
       IN  /\ chainBufs' = Append(chainBufs,
                                  ApplyStatement(name, chainBufs[Len(chainBufs)]))
           /\ chainLog' = Append(chainLog, name)
    /\ UNCHANGED <<files, chainKind, slugVars, entryVars, fnVars, runVars, colorVars,
                   opVars>>

\* the next statement of recombobulate_cheatsheet itself
CheatsheetStatement ==
    /\ chainKind = "cheatsheet"
    /\ ~InCall
    /\ Len(chainLog) < Len(CheatsheetStatements) - 1 + Len(InlineStatements)
    /\ LET k == IF Len(chainLog) < 2 THEN Len(chainLog) + 1
                ELSE Len(chainLog) - Len(InlineStatements) + 2
           name == CheatsheetStatements[k]
       IN  /\ chainBufs' = Append(chainBufs,
                                  ApplyStatement(name, chainBufs[Len(chainBufs)]))
           /\ chainLog' = Append(chainLog, name)
    /\ UNCHANGED <<files, chainKind, slugVars, entryVars, fnVars, runVars, colorVars,
                   opVars>>

ChainNext == InlineStatement \/ CheatsheetStatement

ChainInit ==
    ChainStart /\ FilesIdle /\ SlugIdle /\ EntryIdle /\ FnIdle /\ RunIdle /\ ColorIdle
    /\ OpIdle

SpecChain == ChainInit /\ [][ChainNext]_vars

----------------------------------------------------------------------------
(* Specification of one invocation of run *)

RunStart ==
    /\ files \in RunFiles
    /\ args \in ArgsSet
    /\ sink = <<>>
    /\ pager = None
    /\ browser = None
    /\ effects = <<>>
    /\ result = "none"
    /\ runPc = "start"

RunInit == RunStart /\ SlugIdle /\ EntryIdle /\ FnIdle /\ ColorIdle /\ OpIdle
    /\ ChainIdle

SpecRun == RunInit /\ [][RunNext]_vars

----------------------------------------------------------------------------
(* Colorizer harness: a text through colorize_functions_help or through     *)
(* recombobulate_cheatsheet                                                 *)

ColorStart ==
    /\ colorIn \in ColorTexts
    /\ colorOut = <<>>
    /\ colorPc = "start"

ColorizeInline ==
    /\ colorPc = "start"
    /\ colorOut' = colorize_functions_help(colorIn)
    /\ colorPc' = "inline"
    /\ UNCHANGED <<files, colorIn, slugVars, entryVars, fnVars, runVars, opVars,
                   chainVars>>

ColorizeCheatsheet ==
    /\ colorPc = "start"
    /\ colorOut' = recombobulate_cheatsheet(colorIn)
    /\ colorPc' = "cheatsheet"
    /\ UNCHANGED <<files, colorIn, slugVars, entryVars, fnVars, runVars, opVars,
                   chainVars>>

ColorNext == ColorizeInline \/ ColorizeCheatsheet

ColorInit == ColorStart /\ FilesIdle /\ SlugIdle /\ EntryIdle /\ FnIdle /\ RunIdle /\ OpIdle
    /\ ChainIdle

SpecColor == ColorInit /\ [][ColorNext]_vars

----------------------------------------------------------------------------
(* Functions harness: the function reference rendered by                    *)
(* FunctionHelpSections::to_txt (with the -S query) or ::to_md              *)

FnStart ==
    /\ \E fs \in SeqsUpTo(SectionLibrary, MaxSections), ops \in OperatorDocs :
          files = [NoFiles EXCEPT !.functions = fs, !.operators = ops,
                                  !.functions_prelude = FunctionsPrelude]
    /\ fnSection \in OptionOf(Queries)
    /\ fnOut = <<>>
    /\ fnPc = "start"

RenderFunctionsTxt ==
    /\ fnPc = "start"
    /\ IF FunctionHelpSections_to_txt_panics(parse_operators_help, fnSection)
       THEN fnPc' = "panicked" /\ fnOut' = fnOut
       ELSE /\ fnPc' = "txt"
            /\ fnOut' = FunctionHelpSections_to_txt(parse_functions_help,
                                                    parse_operators_help, fnSection)
    /\ UNCHANGED <<files, fnSection, slugVars, entryVars, runVars, colorVars, opVars,
                   chainVars>>

RenderFunctionsMd ==
    /\ fnPc = "start"
    /\ fnSection = None
    /\ IF FunctionHelpSections_to_md_panics(parse_operators_help)
       THEN fnPc' = "panicked" /\ fnOut' = fnOut
       ELSE /\ fnPc' = "md"
            /\ fnOut' = FunctionHelpSections_to_md(parse_functions_help,
                                                   parse_operators_help)
    /\ UNCHANGED <<files, fnSection, slugVars, entryVars, runVars, colorVars, opVars,
                   chainVars>>

FnNext == RenderFunctionsTxt \/ RenderFunctionsMd

FnInit == FnStart /\ SlugIdle /\ EntryIdle /\ RunIdle /\ ColorIdle /\ OpIdle
    /\ ChainIdle

SpecFn == FnInit /\ [][FnNext]_vars

----------------------------------------------------------------------------
(* Entry harness: one FunctionHelp rendered by to_txt or by to_md *)

EntryName == <<"l","e","n">>
EntryReturns == <<"i","n","t">>
AliasNames == { <<"l">>, <<"s","i","z","e">> }
ArgumentLists ==
    { <<>>, << <<"x">> >>, << <<"<","s",">">>, <<"y">> >> }
HelpTexts ==
    { <<"H","i">>,
      <<"H","i","\n","y","o","u">>,
      <<"H","i","\n","\n","-","x"," ","y","o","u">>,
      <<"H","i"," ","\"","q","\""," ","\n">> }

EntryStart ==
    /\ entry \in [name : {EntryName},
                  arguments : OptionOf(ArgumentLists),
                  returns : {EntryReturns},
                  help : HelpTexts,
                  aliases : OptionOf(SeqsUpTo(AliasNames, MaxAliases)),
                  alternatives : OptionOf(SeqsUpTo(ArgumentLists, MaxAlternatives))]
    /\ entryOut = <<>>
    /\ entryPc = "start"

RenderEntryTxt ==
    /\ entryPc = "start"
    /\ entryOut' = FunctionHelp_to_txt(entry)
    /\ entryPc' = "txt"
    /\ UNCHANGED entry
    /\ UNCHANGED <<files, slugVars, fnVars, runVars, colorVars, opVars,
                   chainVars>>

RenderEntryMd ==
    /\ entryPc = "start"
    /\ entryOut' = FunctionHelp_to_md(entry)
    /\ entryPc' = "md"
    /\ UNCHANGED entry
    /\ UNCHANGED <<files, slugVars, fnVars, runVars, colorVars, opVars,
                   chainVars>>

EntryNext == RenderEntryTxt \/ RenderEntryMd

EntryInit == EntryStart /\ FilesIdle /\ SlugIdle /\ FnIdle /\ RunIdle /\ ColorIdle /\ OpIdle
    /\ ChainIdle

SpecEntry == EntryInit /\ [][EntryNext]_vars

----------------------------------------------------------------------------
(* Slug harness: slug applied once, then again to its own result *)

SlugAlphabet == {"F", "o", "7", " ", "-", "!", "É"}

SlugStart ==
    /\ slugIn \in SeqsUpTo(SlugAlphabet, MaxTitleLen)
    /\ slugOnce = <<>>
    /\ slugTwice = <<>>
    /\ slugPc = "start"

SlugFirst ==
    /\ slugPc = "start"
    /\ slugOnce' = slug(slugIn)
    /\ slugPc' = "once"
    /\ UNCHANGED <<slugIn, slugTwice>>
    /\ UNCHANGED <<files, entryVars, fnVars, runVars, colorVars, opVars,
                   chainVars>>

SlugSecond ==
    /\ slugPc = "once"
    /\ slugTwice' = slug(slugOnce)
    /\ slugPc' = "twice"
    /\ UNCHANGED <<slugIn, slugOnce>>
    /\ UNCHANGED <<files, entryVars, fnVars, runVars, colorVars, opVars,
                   chainVars>>

SlugNext == SlugFirst \/ SlugSecond

SlugInit == SlugStart /\ FilesIdle /\ EntryIdle /\ FnIdle /\ RunIdle /\ ColorIdle /\ OpIdle
    /\ ChainIdle

SpecSlug == SlugInit /\ [][SlugNext]_vars

----------------------------------------------------------------------------
(* C1 *)

IsHyphen(c) == c = "-"
NotHyphen(c) == c # "-"
IsSpaceChar(c) == c = " "

\* C1 (as stated): slug is idempotent, slug(slug(s)) = slug(s).
C1_Idempotent == slugPc = "twice" => slugTwice = slugOnce

\* C1 (amended): slug(slug(s)) is slug(s) with every hyphen deleted, so the
\* two agree exactly when s contains no space.
C1_SecondPassDeletesHyphens ==
    slugPc = "twice" =>
        /\ slugTwice = SelectSeq(slugOnce, NotHyphen)
        /\ (slugTwice = slugOnce) <=> (SelectSeq(slugIn, IsSpaceChar) = <<>>)

\* a title with a space and a hyphen has been slugged twice
C1_Witness ==
    /\ slugPc = "twice"
    /\ SelectSeq(slugIn, IsSpaceChar) # <<>>
    /\ SelectSeq(slugIn, IsHyphen) # <<>>
    /\ slugTwice # <<>>
----------------------------------------------------------------------------
(* C6, C7: the call forms of one function entry *)

EntryLines == SplitLines(entryOut)
NAliases == Len(Flatten(entry.aliases))
NAlternatives == Len(Flatten(entry.alternatives))

IsTxtSignature(line) == StartsWithAt(line, 1, <<"-", " ">>)
IsMdSignature(line) == StartsWithAt(line, 1, <<"-", " ", "*", "*">>)

\* a call signature as plain text: "- name(a, b) -> returns" or "- name -> returns"
PlainSignature(name, args_opt, returns) ==
    <<"-", " ">> \o name
    \o (IF args_opt = None THEN <<>>
        ELSE <<"(">> \o Join(args_opt[1], <<",", " ">>) \o <<")">>)
    \o Arrow \o returns

\* C6: the Markdown rendering of an entry with N aliases and M alternatives
\* has exactly 1 + M call-signature lines (and no other line); the aliases
\* are listed inline on each signature line, never on a line of their own;
\* newlines of the help prose add no line.
C6_MdCallForms ==
    entryPc = "md" =>
        /\ Len(EntryLines) = 1 + NAlternatives + 1
        /\ EntryLines[Len(EntryLines)] = <<>>
        /\ \A k \in 1..(1 + NAlternatives) :
              /\ IsMdSignature(EntryLines[k])
              /\ StartsWithAt(EntryLines[k], 3, MdAlias(entry.name))
              /\ \A a \in 1..NAliases :
                    /\ Contains(EntryLines[k], MdAlias(Flatten(entry.aliases)[a]))
                    /\ ~StartsWithAt(EntryLines[k], 3, MdAlias(Flatten(entry.aliases)[a]))
              /\ (entry.aliases # None) <=> Contains(EntryLines[k], AliasesOpen)
        /\ Cardinality({k \in 1..Len(EntryLines) : IsMdSignature(EntryLines[k])})
              = 1 + NAlternatives

\* two aliases, two alternatives and a help text with a newline, as Markdown
C6_Witness ==
    /\ entryPc = "md"
    /\ NAliases = 2
    /\ NAlternatives = 2
    /\ Contains(entry.help, <<"\n">>)
    /\ Len(EntryLines) = 4

\* C7: the terminal rendering of an entry with N aliases and M alternatives
\* starts with exactly 1 + N + M call-signature lines: the primary, then one
\* per alias with the primary arguments, then one per alternative with the
\* primary name; every one ends with the same colored return type, and the
\* help block follows exactly once, after all of them.
C7_TxtCallForms ==
    entryPc = "txt" =>
        LET n == 1 + NAliases + NAlternatives
            nameOf(k) == IF k >= 2 /\ k <= 1 + NAliases
                         THEN Flatten(entry.aliases)[k - 1] ELSE entry.name
            argsOf(k) == IF k <= 1 + NAliases THEN entry.arguments
                         ELSE Some(Flatten(entry.alternatives)[k - 1 - NAliases])
        IN  /\ {k \in 1..Len(EntryLines) : IsTxtSignature(EntryLines[k])} = 1..n
            /\ \A k \in 1..n :
                  /\ strip_ansi_colors(EntryLines[k])
                        = PlainSignature(nameOf(k), argsOf(k), entry.returns)
                  /\ EndsWith(EntryLines[k], Arrow \o Colored(Magenta, entry.returns))
            /\ strip_ansi_colors(Join(SubSeq(EntryLines, n + 1, Len(EntryLines)), <<"\n">>))
                  = indent(wrap(entry.help), FourSpaces) \o <<"\n", "\n">>

\* two aliases and two alternatives of an entry with arguments, on the terminal
C7_Witness ==
    /\ entryPc = "txt"
    /\ NAliases = 2
    /\ NAlternatives = 2
    /\ entry.arguments # None
    /\ Flatten(entry.aliases)[1] # Flatten(entry.aliases)[2]
    /\ Len(EntryLines) >= 6

----------------------------------------------------------------------------
(* C2, C3: filtering the terminal rendering of the function reference *)

FnLines == SplitLines(fnOut)

\* the summary entry of the Operators block: the line "- Operators"
OperatorsSummaryPresent ==
    \E k \in 1..Len(FnLines) : FnLines[k] = <<"-", " ">> \o OperatorsWord

\* the full section of the Operators block: its colorized "## Operators" line
OperatorsSectionPresent ==
    \E k \in 1..Len(FnLines) :
        FnLines[k] = Colored(Yellow, Hashes(2) \o <<" ">> \o OperatorsWord)

OperatorsBlockPresent == OperatorsSummaryPresent /\ OperatorsSectionPresent
OperatorsBlockAbsent == ~OperatorsSummaryPresent /\ ~OperatorsSectionPresent

QueryContainsOperator ==
    Contains(ToLowercase(fnSection[1]), <<"o","p","e","r","a","t","o","r">>)

\* C2 (as stated): with a query, the Operators block is present when the
\* query contains "operator" in any letter case, and absent when it does not.
C2_KeptIffQueryContainsOperator ==
    (fnPc = "txt" /\ fnSection # None) =>
        /\ QueryContainsOperator => OperatorsBlockPresent
        /\ ~QueryContainsOperator => OperatorsBlockAbsent

\* C2 (amended): with a query, the Operators block (summary entry and full
\* section) is present exactly when the lower-cased query is a substring of
\* the word "operators", and entirely absent otherwise.
C2_KeptIffQueryInsideOperators ==
    (fnPc = "txt" /\ fnSection # None) =>
        IF \E i \in 1..10, j \in 0..9 :
              /\ i + j - 1 <= 9
              /\ ToLowercase(fnSection[1]) = SubSeq(OperatorsLower, i, i + j - 1)
        THEN OperatorsBlockPresent
        ELSE OperatorsBlockAbsent

\* a rendering that keeps the Operators block for a query that does not
\* contain "operator", next to one that drops it for a query that does
C2_Witness ==
    /\ fnPc = "txt"
    /\ fnSection # None
    /\ \/ ~QueryContainsOperator /\ fnSection[1] # <<>> /\ OperatorsBlockPresent
       \/ QueryContainsOperator /\ OperatorsBlockAbsent

\* the titles the summary lists: its "- title" lines, the Operators entry aside
SummaryTitles ==
    LET IsTitleLine(l) == StartsWithAt(l, 1, <<"-", " ">>) /\ l # <<"-", " ">> \o OperatorsWord
        lines == SelectSeq(FnLines, IsTitleLine)
    IN  [k \in 1..Len(lines) |-> SubSeq(lines[k], 3, Len(lines[k]))]

\* the titles the body lists: the header lines of function sections
BodyTitles ==
    LET IsHeader(l) == StartsWithAt(l, 1, Yellow \o <<"#", "#", " ">>)
                       /\ ~EndsWith(l, Reset)
        lines == SelectSeq(FnLines, IsHeader)
    IN  [k \in 1..Len(lines) |-> SubSeq(lines[k], 6, Len(lines[k]))]

\* the titles of the document whose lower-cased form contains the lower-cased query
MatchingTitles ==
    LET Matches(s) == fnSection = None
                      \/ Contains(ToLowercase(s.title), ToLowercase(fnSection[1]))
        kept == SelectSeq(files.functions, Matches)
    IN  [k \in 1..Len(kept) |-> kept[k].title]

\* C3: the terminal rendering retains a function section, in the summary and
\* in the body, exactly when its lower-cased title contains the lower-cased
\* query; summary and body list the same sections.
C3_FilterBySubstring ==
    fnPc = "txt" =>
        /\ SummaryTitles = MatchingTitles
        /\ BodyTitles = MatchingTitles

\* a query in another letter case than the title keeps one section of a
\* two-section document and drops the other
C3_Witness ==
    /\ fnPc = "txt"
    /\ fnSection = Some(<<"S","T","R">>)
    /\ Len(files.functions) = 2
    /\ Len(BodyTitles) = 1
    /\ Len(SummaryTitles) = 1

----------------------------------------------------------------------------
(* C4: raw passthrough *)

RawKinds == {"functions", "aggs", "scraping"}
RawBlob ==
    CASE args.cmd = "functions" -> files.functions_json
      [] args.cmd = "aggs" -> files.aggs_json
      [] args.cmd = "scraping" -> files.scraping_json
      [] OTHER -> <<>>
HasWritten == \E k \in 1..Len(effects) : effects[k] = "write"
RawWritten == runPc # "idle" /\ args.cmd \in RawKinds /\ args.flag_json /\ HasWritten

\* C4 as stated: in raw (--json) mode, what the functions, aggs and scraping
\* kinds hand to the sink is byte-identical to the embedded blob
C4_RawByteIdentical == RawWritten => sink = RawBlob

\* C4 amended: in raw (--json) mode, what the functions, aggs and scraping
\* kinds hand to the sink is the embedded blob, unchanged, followed by one
\* newline that writeln! adds
C4_RawPlusNewline ==
    RawWritten => /\ SubSeq(sink, 1, Len(RawBlob)) = RawBlob
                  /\ SubSeq(sink, Len(RawBlob) + 1, Len(sink)) = <<"\n">>

\* C4 witness: a finished raw dump of a functions.json that itself ends in a
\* newline, so that the sink ends in two
C4_Witness ==
    /\ RawWritten
    /\ runPc = "returned"
    /\ result = "Ok"
    /\ args.cmd = "functions"
    /\ EndsWith(RawBlob, <<"\n">>)
    /\ EndsWith(sink, <<"\n", "\n">>)

----------------------------------------------------------------------------
(* C5: the cross-reference link of the cheatsheet *)

LinkWrapper == <<"]","(",".","/","f","u","n","c","t","i","o","n","s",".","m","d",")">>
CheatsheetHasLink == Contains(files.cheatsheet, FunctionsLink)
CheatsheetWritten == runPc # "idle" /\ args.cmd = "cheatsheet" /\ HasWritten
TerminalCheatsheet == CheatsheetWritten /\ ~args.flag_md
MarkdownCheatsheet == CheatsheetWritten /\ args.flag_md

\* C5 as stated: for a cheatsheet containing the functions link, the terminal
\* output and the Markdown output both contain the plain inline code span and
\* no link wrapper to ./functions.md
C5_LinkReplacedInBoth ==
    (CheatsheetWritten /\ CheatsheetHasLink) =>
        Contains(sink, FunctionsSpan) /\ ~Contains(sink, LinkWrapper)

\* C5 amended: for a cheatsheet containing the functions link, the terminal
\* output contains the inline code span in its place, color escapes aside,
\* and no link wrapper to ./functions.md; the Markdown output is the
\* cheatsheet text unchanged and a newline, so the link remains in it
C5_LinkReplacedInTerminalOnly ==
    /\ (TerminalCheatsheet /\ CheatsheetHasLink) =>
          /\ Contains(strip_ansi_colors(sink), FunctionsSpan)
          /\ ~Contains(sink, LinkWrapper)
          /\ ~Contains(strip_ansi_colors(sink), LinkWrapper)
    /\ (MarkdownCheatsheet /\ CheatsheetHasLink) =>
          /\ sink = files.cheatsheet \o <<"\n">>
          /\ Contains(sink, FunctionsLink)

\* C5 witness: a terminal cheatsheet whose text held the link and whose
\* output holds the span highlighted as a quoted span
C5_Witness ==
    /\ TerminalCheatsheet
    /\ CheatsheetHasLink
    /\ Contains(sink, Colored(Green, FunctionsSpan))
    /\ runPc = "returned"

----------------------------------------------------------------------------
(* C8: a filter query with a kind other than functions *)

FilterOnOtherKind ==
    runPc # "idle" /\ args.flag_section # None /\ args.cmd # "functions"
PagerError == "Err: -p/--pager does not work with --json nor --md!"
FilterError == "Err: -S/--section <query> only works with the functions subcommand!"
NothingDone == effects = <<>> /\ sink = <<>> /\ pager = None /\ browser = None
BeforePager == runPc \in {"start", "pager_check", "section_check", "returned"}

\* C8 as stated: an invocation with a filter query and a kind other than
\* functions does nothing at all before it is rejected with an error: no
\* rendering, no write to the sink, no other action
C8_RejectedFirst ==
    FilterOnOtherKind =>
        /\ NothingDone
        /\ BeforePager
        /\ runPc = "returned" => result \in {PagerError, FilterError}

\* C8 amended: an invocation without --open that has a filter query and a
\* kind other than functions does nothing at all before it is rejected: with
\* the pager error when --pager meets --json or --md, with the filter error
\* otherwise.  With --open the browser is opened first and the invocation
\* returns Ok, unrejected, having rendered and written nothing.
C8_RejectedFirstUnlessOpen ==
    FilterOnOtherKind =>
        IF args.flag_open
        THEN /\ sink = <<>> /\ pager = None
             /\ runPc \in {"start", "returned", "panicked"}
             /\ runPc = "returned" => result = "Ok" /\ effects = <<"open_browser">>
             /\ runPc # "returned" => effects = <<>>
        ELSE /\ NothingDone
             /\ BeforePager
             /\ runPc = "returned" =>
                   result = (IF args.flag_pager /\ (args.flag_json \/ args.flag_md)
                             THEN PagerError ELSE FilterError)

\* C8 witness: a filter query on the aggs kind rejected with the filter error
C8_Witness ==
    /\ FilterOnOtherKind
    /\ args.cmd = "aggs"
    /\ ~args.flag_open
    /\ runPc = "returned"
    /\ result = FilterError
    /\ NothingDone

----------------------------------------------------------------------------
(* C9: an operator section without examples *)

HasEmptySection ==
    \E k \in 1..Len(files.operators) : files.operators[k].examples = <<>>
\* a render call of the function reference has been made
FunctionsRenderCall ==
    /\ args.cmd = "functions"
    /\ ~args.flag_json
    /\ \E k \in 1..Len(effects) : effects[k] = "render"
\* the render leaves the Operators block out: a terminal render with a query
\* that is no substring of "operators"
BlockLeftOut ==
    /\ ~args.flag_md
    /\ args.flag_section # None
    /\ ~Contains(OperatorsLower, ToLowercase(args.flag_section[1]))

\* C9 as stated: with an operator section without examples, every render
\* call of the function reference fails, having written nothing
C9_EveryRenderFails ==
    (HasEmptySection /\ FunctionsRenderCall) => runPc = "panicked" /\ sink = <<>>

\* C9 amended: with an operator section without examples, every render call
\* of the function reference that includes the Operators block (Markdown,
\* terminal without filter, terminal with a filter that is a substring of
\* "operators") fails, having written nothing; a terminal render whose
\* filter leaves the block out does not fail and writes its whole string
C9_RenderFailsIffBlockKept ==
    (HasEmptySection /\ FunctionsRenderCall) =>
        IF BlockLeftOut
        THEN /\ runPc \in {"print", "returned"}
             /\ sink = FunctionHelpSections_to_txt(parse_functions_help,
                            <<>>, args.flag_section)
             /\ runPc = "returned" => result = "Ok"
        ELSE runPc = "panicked" /\ sink = <<>> /\ result = "none"

\* C9 witness: the terminal render with the filter op, which keeps the
\* Operators block, has failed
C9_Witness ==
    /\ HasEmptySection
    /\ FunctionsRenderCall
    /\ args.flag_section = Some(<<"o", "p">>)
    /\ ~args.flag_md
    /\ runPc = "panicked"
    /\ sink = <<>>

----------------------------------------------------------------------------
(* C10: the colorizers on text without triggers *)

QuoteSymbols == {"\"", "'", Backtick}
OperatorSymbols == {"!", "-", "=", "<", ">", "&", "|", "+", "*", "/", "%"}
OperatorWords ==
    { <<"a","n","d">>, <<"o","r">>, <<"n","o","t"," ","i","n">>, <<"i","n">>,
      <<"e","q">>, <<"n","e">>, <<"l","t">>, <<"l","e">>, <<"g","t">>, <<"g","e">>,
      <<"a","s">> }
HasSymbolOf(s, S) == \E k \in 1..Len(s) : s[k] \in S
\* an operator: an operator symbol, or an operator word between two spaces
HasOperator(s) ==
    \/ HasSymbolOf(s, OperatorSymbols)
    \/ \E w \in OperatorWords : Contains(s, <<" ">> \o w \o <<" ">>)
\* no quote, operator, flag (two hyphens), URL (://), number or header (#)
TriggerFree(s) ==
    /\ ~HasSymbolOf(s, QuoteSymbols)
    /\ ~HasOperator(s)
    /\ ~Contains(s, <<"-", "-">>)
    /\ ~Contains(s, ColonSlashSlash)
    /\ ~HasSymbolOf(s, Digits)
    /\ ~HasSymbolOf(s, {"#"})
Colorized == colorPc \in {"inline", "cheatsheet"}

\* C10 as stated: on a text without quotes, operators, flags, URLs, numbers
\* and headers, the inline colorizer and the cheatsheet colorizer return
\* the text itself
C10_NoOpOnTriggerFree == (Colorized /\ TriggerFree(colorIn)) => colorOut = colorIn

\* C10 amended: on a text without quotes, operators, flags, URLs, numbers,
\* headers and square brackets (the indexing and slicing syntax), the inline
\* colorizer and the cheatsheet colorizer return the text itself
C10_NoOpOnTriggerAndBracketFree ==
    (Colorized /\ TriggerFree(colorIn) /\ ~HasSymbolOf(colorIn, {"[", "]"})) =>
        colorOut = colorIn

\* C10 witness: the cheatsheet colorizer has returned a text of words,
\* spaces and line breaks as it was
C10_Witness ==
    /\ colorPc = "cheatsheet"
    /\ TriggerFree(colorIn)
    /\ ~HasSymbolOf(colorIn, {"[", "]"})
    /\ Contains(colorIn, <<"\n", " ", "t","r","u","e">>)
    /\ colorOut = colorIn

----------------------------------------------------------------------------
(* C11: the two columns of an operator section *)

OpLines == SplitLines(opOut)
\* the left margin of a row, and the number of lines before the first row:
\* the title and a blank line, the prelude and a blank line, the opening
\* fence of the Markdown rendering
RowMargin == IF opPc = "txt" THEN 4 ELSE 0
RowBase ==
    2 + (IF opSection.prelude # None THEN 2 ELSE 0) + (IF opPc = "md" THEN 1 ELSE 0)
\* the maximum snippet length, as str::len measures it
ColumnWidth ==
    Max({StrLen(opSection.examples[k].snippet) : k \in 1..Len(opSection.examples)})
Separator == <<" ", "-", " ">>
RowOf(k) == OpLines[RowBase + k]
AlignedRow(row, example) ==
    LET n == Len(example.snippet)
        col == RowMargin + ColumnWidth
    IN  /\ Len(row) = col + 3 + Len(example.help[1])
        /\ \A j \in 1..RowMargin : row[j] = " "
        /\ SubSeq(row, RowMargin + 1, RowMargin + n) = example.snippet
        /\ \A j \in (RowMargin + n + 1)..col : row[j] = " "
        /\ SubSeq(row, col + 1, col + 3) = Separator
        /\ SubSeq(row, col + 4, Len(row)) = example.help[1]
BareRow(row, example) ==
    /\ Len(row) = RowMargin + Len(example.snippet)
    /\ \A j \in 1..RowMargin : row[j] = " "
    /\ SubSeq(row, RowMargin + 1, Len(row)) = example.snippet

\* C11: in a rendered operator section every example with help is its snippet
\* padded on the right to the maximum snippet length of the section, then
\* " - " and the help, so that the separator starts at one column in all such
\* rows; every example without help is its snippet alone
C11_AlignedColumns ==
    opPc \in {"txt", "md"} =>
        /\ Len(OpLines) >= RowBase + Len(opSection.examples)
        /\ \A k \in 1..Len(opSection.examples) :
              IF opSection.examples[k].help # None
              THEN AlignedRow(RowOf(k), opSection.examples[k])
              ELSE BareRow(RowOf(k), opSection.examples[k])

\* C11 witness: a short snippet with help padded to the length of a longer
\* snippet without help, which stays bare
C11_Witness ==
    /\ opPc = "txt"
    /\ Len(opSection.examples) = 2
    /\ opSection.examples[1] = [snippet |-> <<"x">>, help |-> Some(<<"a","d","d","s">>)]
    /\ opSection.examples[2] = [snippet |-> <<"x"," ","+"," ","y">>, help |-> None]
    /\ RowOf(1) = <<" "," "," "," ","x"," "," "," "," "," ","-"," ","a","d","d","s">>
    /\ RowOf(2) = <<" "," "," "," ","x"," ","+"," ","y">>

----------------------------------------------------------------------------
(* C12: the order of the passes *)

InlineOrder ==
    <<"quote", "main_section", "url", "unary", "binary", "pipeline", "slice", "flag">>
CheatsheetOrder ==
    <<"cross_references", "number">> \o InlineOrder \o <<"link", "code_fence", "comment">>
ClaimedOrder == IF chainKind = "inline" THEN InlineOrder ELSE CheatsheetOrder
ChainDone == chainKind # "idle" /\ Len(chainLog) = Len(ClaimedOrder)
\* the buffer the k-th pass of the claimed order makes of the buffer before
ClaimedBuffer(k) ==
    LET before == chainBufs[k]
    IN  CASE ClaimedOrder[k] = "cross_references" ->
                Replace(Replace(Replace(before, FunctionsLink, FunctionsSpan),
                                CheatsheetLink, CheatsheetSpan), AggsLink, AggsSpan)
          [] ClaimedOrder[k] = "number" -> ReplaceAll(NumberEnd, NumberRewrite, before)
          [] ClaimedOrder[k] = "quote" -> ReplaceAll(QuoteEnd, QuoteRewrite, before)
          [] ClaimedOrder[k] = "main_section" ->
                ReplaceAll(MainSectionEnd, MainSectionRewrite, before)
          [] ClaimedOrder[k] = "url" -> ReplaceAll(UrlEnd, UrlRewrite, before)
          [] ClaimedOrder[k] = "unary" -> ReplaceAll(UnaryEnd, UnaryRewrite, before)
          [] ClaimedOrder[k] = "binary" -> ReplaceAll(BinaryEnd, BinaryRewrite, before)
          [] ClaimedOrder[k] = "pipeline" ->
                ReplaceAll(PipelineEnd, PipelineRewrite, before)
          [] ClaimedOrder[k] = "slice" -> ReplaceAll(SliceEnd, SliceRewrite, before)
          [] ClaimedOrder[k] = "flag" -> ReplaceAll(FlagEnd, FlagRewrite, before)
          [] ClaimedOrder[k] = "link" -> ReplaceAll(LinkEnd, LinkRewrite, before)
          [] ClaimedOrder[k] = "code_fence" ->
                ReplaceAll(CodeFenceEnd, CodeFenceRewrite, before)
          [] ClaimedOrder[k] = "comment" -> ReplaceAll(CommentEnd, CommentRewrite, before)

\* C12: the passes executed so far are the first passes of the fixed order
\* (quotes, headers, URLs, unary, binary, pipeline, slices, flags; for the
\* cheatsheet the cross-references and the numbers before them and the list
\* links, the code fences and the comments after them), each pass has
\* rewritten the whole buffer the pass before it left, and the last buffer
\* of a finished chain is what the colorizer returns for the text
C12_FixedPassOrder ==
    chainKind # "idle" =>
        /\ Len(chainLog) <= Len(ClaimedOrder)
        /\ chainLog = SubSeq(ClaimedOrder, 1, Len(chainLog))
        /\ Len(chainBufs) = Len(chainLog) + 1
        /\ \A k \in 1..Len(chainLog) : chainBufs[k + 1] = ClaimedBuffer(k)
        /\ ChainDone =>
              chainBufs[Len(chainBufs)] =
                 (IF chainKind = "inline" THEN colorize_functions_help(chainBufs[1])
                  ELSE recombobulate_cheatsheet(chainBufs[1]))

\* C12 witness: a finished cheatsheet chain on the text with a flag inside a
\* header after a quote, where the header pass has wrapped the quote the
\* quote pass had already colored
C12_Witness ==
    /\ chainKind = "cheatsheet"
    /\ ChainDone
    /\ chainBufs[1] = <<"#"," ","\"","q","\""," ","-","-","f","\n">>
    /\ Contains(chainBufs[4], Colored(Green, <<"\"","q","\"">>))
    /\ chainBufs[5] = Colored(Yellow, SubSeq(chainBufs[4], 1, Len(chainBufs[4]) - 1))
                         \o <<"\n">>
    /\ chainBufs[5] # chainBufs[4]

----------------------------------------------------------------------------
(* C13: flag tokens after the inline chain *)

\* a flag token starts at i: two hyphens and a word or hyphen character, not
\* in the middle of a word or of a run of hyphens
FlagStartsAt(s, i) ==
    /\ FlagEnd(s, i) # 0
    /\ i = 1 \/ (s[i - 1] # "-" /\ ~IsWordChar(s[i - 1]))
FlagTokens(s) ==
    { SubSeq(s, i, FlagEnd(s, i)) : i \in {j \in 1..Len(s) : FlagStartsAt(s, j)} }

\* C13: after the whole inline chain every flag token of the text stands in
\* the output highlighted as a flag, as one token: no pass before the flag
\* pass has rewritten a part of it
C13_FlagsHighlightedWhole ==
    (chainKind = "inline" /\ Len(chainLog) = Len(InlineStatements)) =>
        \A token \in FlagTokens(chainBufs[1]) :
            Contains(chainBufs[Len(chainBufs)], Colored(Cyan, token))

====
